---- MODULE Spec2Model ----
(***************************************************************************)
(* kubectl-peek: the pagination-and-display control loop of main.go.       *)
(*                                                                         *)
(* One invocation of the command is modelled: cobra parses the flags,      *)
(* RunE checks the arguments, Complete and Validate run, and Run resolves  *)
(* the resource and loops over list requests.  The API server, the         *)
(* RESTMapper, the printer and standard input are the environment.         *)
(*                                                                         *)
(* Strings the code only passes along (tokens, selectors, namespaces) are  *)
(* TLA+ strings; the resource argument, which the code lower-cases and     *)
(* splits, is a sequence of one-character strings.                         *)
(***************************************************************************)
EXTENDS Integers, Sequences, FiniteSets, TLC

VARIABLES
    o,               \* PeekOptions: the flags and the calculated values
    args,            \* positional arguments handed to RunE
    pc,              \* position of the invocation
    result,          \* what RunE returned (NoResult while running)
    gvr,             \* Run's local gvr
    ns,              \* Run's local ns
    continueToken,   \* Run's local continueToken
    isFirstRequest,  \* Run's local isFirstRequest
    table,           \* the response of the list request in hand
    lookups,         \* every query handed to the RESTMapper, in order
    responses,       \* every answer to a list request, in order
    requests,        \* every list request issued, in order
    out,             \* everything written to standard output, in order
    reads,           \* every read of standard input: the chunk it returned
    server           \* the API server: its kind and its collection

vars == <<o, args, pc, result, gvr, ns, continueToken, isFirstRequest,
          table, lookups, responses, requests, out, reads, server>>

(***************************************************************************)
(* Bounds of the model.                                                    *)
(***************************************************************************)
MaxLimit == 2        \* --limit ranges over -1 .. MaxLimit
MaxItems == 3        \* the collection holds 0 .. MaxItems items
MaxReads == 2        \* standard input delivers at most MaxReads chunks

(***************************************************************************)
(* Program constants.                                                      *)
(***************************************************************************)
DefaultPeekLimit == 10    \* the value of --limit before the flags are parsed

(***************************************************************************)
(* Input domains.                                                          *)
(***************************************************************************)
Pods == <<"p", "o", "d", "s">>
PodsCap == <<"P", "o", "d", "s">>
JobsBatch == <<"j", "o", "b", "s", ".", "b", "a", "t", "c", "h">>
PodsBatch == <<"p", "o", "d", "s", ".", "b", "a", "t", "c", "h">>
WidgetsExampleCom == <<"w", "i", "d", "g", "e", "t", "s", ".", "e", "x", "a",
                       "m", "p", "l", "e", ".", "c", "o", "m">>

PodsBatchCap == <<"P", "o", "d", "s", ".", "B", "a", "t", "c", "h">>
PodsQuote == <<"p", "o", "d", "s", "\"">>

ResourceInputs == {Pods, PodsCap, JobsBatch, PodsBatch, WidgetsExampleCom,
                   PodsBatchCap, PodsQuote}
ArgLists == {<<>>} \cup {<<r>> : r \in ResourceInputs} \cup {<<Pods, JobsBatch>>}

Limits == (-1) .. MaxLimit
TokenPool == <<"t1", "t2", "t3", "t4", "t5", "t6">>
CallerTokens == {"", "t1", "zz"}
Selectors == {"", "app=web"}
Namespaces == {"default", "dev"}
OutputFormats == {"", "wide", "json"}
Chunks == {<<"n">>, <<"q">>, <<"x">>, <<"n", "x">>}
Causes == {"timeout", "forbidden"}

Min(a, b) == IF a < b THEN a ELSE b

(***************************************************************************)
(* Results and output events.                                              *)
(***************************************************************************)
NoResult == [kind |-> "running", arg |-> <<>>]
Success == [kind |-> "nil", arg |-> <<>>]
Err(kind, arg) == [kind |-> kind, arg |-> arg]

IsError(r) == r.kind \notin {"running", "nil"}

Event(kind, items, token) == [kind |-> kind, items |-> items, token |-> token]
OutPage(items) == Event("Page", items, "")
OutNoResources == Event("No resources found.", <<>>, "")
OutEndOfList == Event("--- End of list ---", <<>>, "")
OutPrompt == Event("--- [n] next page, [q] quit: ", <<>>, "")
OutNewline == Event("newline", <<>>, "")
OutTokenLine(token) == Event("Continue Token:", <<>>, token)

NoTable == [Rows |-> <<>>, Continue |-> "", err |-> ""]
NoGVR == [Group |-> <<>>, Version |-> "", Resource |-> <<>>]

(***************************************************************************)
(* strings.ToLower and strings.Split on character sequences.               *)
(***************************************************************************)
LowerChar(c) ==
    CASE c = "P" -> "p"
      [] c = "J" -> "j"
      [] c = "B" -> "b"
      [] c = "W" -> "w"
      [] OTHER -> c

ToLower(s) == [i \in 1 .. Len(s) |-> LowerChar(s[i])]

(* The %q verb of fmt (strconv.Quote): the string between double quotes,
   with a backslash before every double quote and backslash in it. *)
EscapeChar(c) == IF c = "\"" \/ c = "\\" THEN <<"\\", c>> ELSE <<c>>

RECURSIVE Escape(_)
Escape(s) == IF s = <<>> THEN <<>> ELSE EscapeChar(Head(s)) \o Escape(Tail(s))

Quote(s) == <<"\"">> \o Escape(s) \o <<"\"">>

RECURSIVE SplitFrom(_, _, _, _)
SplitFrom(s, sep, from, i) ==
    IF i > Len(s) THEN <<SubSeq(s, from, Len(s))>>
    ELSE IF s[i] = sep
    THEN <<SubSeq(s, from, i - 1)>> \o SplitFrom(s, sep, i + 1, i + 1)
    ELSE SplitFrom(s, sep, from, i + 1)

Split(s, sep) == SplitFrom(s, sep, 1, 1)

(***************************************************************************)
(* The RESTMapper: the types the cluster has registered.  ResourceFor      *)
(* matches the resource name, and the group when the query names one, and  *)
(* fills in the preferred version.                                         *)
(***************************************************************************)
Registered ==
    { [Group |-> <<>>, Version |-> "v1", Resource |-> <<"p", "o", "d", "s">>],
      [Group |-> <<"b", "a", "t", "c", "h">>, Version |-> "v1",
       Resource |-> <<"j", "o", "b", "s">>] }

Matches(q) ==
    { r \in Registered :
        /\ r.Resource = q.Resource
        /\ (q.Group = <<>> \/ r.Group = q.Group)
        /\ (q.Version = "" \/ r.Version = q.Version) }

ResourceFor(q) ==
    IF Matches(q) = {}
    THEN [gvr |-> NoGVR, err |-> TRUE]
    ELSE [gvr |-> CHOOSE r \in Matches(q) : TRUE, err |-> FALSE]

(***************************************************************************)
(* getResourceGVR: the partial GVR built from the user's argument, and     *)
(* the outcome of the lookup.                                              *)
(***************************************************************************)
(* Variant: the first two segments are used whenever there is a dot. *)
gvrToFindFirstTwo(resource) ==
    LET resourceArg == ToLower(resource)
        parts == Split(resourceArg, ".")
    IN  IF Len(parts) >= 2
        THEN [Group |-> parts[2], Version |-> "", Resource |-> parts[1]]
        ELSE [Group |-> <<>>, Version |-> "", Resource |-> resourceArg]

gvrToFind(resource) ==
    LET resourceArg == ToLower(resource)
        parts == Split(resourceArg, ".")
    IN  IF Len(parts) = 2
        THEN [Group |-> parts[2], Version |-> "", Resource |-> parts[1]]
        ELSE [Group |-> <<>>, Version |-> "", Resource |-> resourceArg]

(* Variant: the error names the lower-cased argument. *)
getResourceGVRLowered(resource) ==
    LET found == ResourceFor(gvrToFind(resource))
    IN  IF found.err
        THEN [asked |-> gvrToFind(resource), gvr |-> NoGVR,
              err |-> Err("the server doesn't have a resource type",
                          Quote(ToLower(resource)))]
        ELSE [asked |-> gvrToFind(resource), gvr |-> found.gvr, err |-> Success]

(* The argument of the error is the text that %q writes into the message. *)
getResourceGVR(resource) ==
    LET found == ResourceFor(gvrToFind(resource))
    IN  IF found.err
        THEN [asked |-> gvrToFind(resource), gvr |-> NoGVR,
              err |-> Err("the server doesn't have a resource type",
                          Quote(resource))]
        ELSE [asked |-> gvrToFind(resource), gvr |-> found.gvr, err |-> Success]

(* getResourceGVR for every argument RunE can hand to Run. *)
Resolved == [r \in ResourceInputs |-> getResourceGVR(r)]

(***************************************************************************)
(* Validate: the first failing check, or Success.                          *)
(***************************************************************************)
(* Variant: only a negative limit is rejected. *)
ValidateNegativeOnly(opt) ==
    IF opt.limit < 0
    THEN Err("--limit must be a positive number", <<>>)
    ELSE IF opt.interactive /\ opt.continueToken # ""
    THEN Err("cannot use --interactive and --continue flags together", <<>>)
    ELSE IF opt.interactive /\ (opt.outputFormat # "" /\ opt.outputFormat # "wide")
    THEN Err("interactive mode is only supported for standard and wide table output", <<>>)
    ELSE Success

(* Variant: --interactive and --continue are accepted together. *)
ValidateNoExclusion(opt) ==
    IF opt.limit <= 0
    THEN Err("--limit must be a positive number", <<>>)
    ELSE IF opt.interactive /\ (opt.outputFormat # "" /\ opt.outputFormat # "wide")
    THEN Err("interactive mode is only supported for standard and wide table output", <<>>)
    ELSE Success

(* Variant: interactive mode accepts the default output format only. *)
ValidateDefaultFormatOnly(opt) ==
    IF opt.limit <= 0
    THEN Err("--limit must be a positive number", <<>>)
    ELSE IF opt.interactive /\ opt.continueToken # ""
    THEN Err("cannot use --interactive and --continue flags together", <<>>)
    ELSE IF opt.interactive /\ opt.outputFormat # ""
    THEN Err("interactive mode is only supported for standard and wide table output", <<>>)
    ELSE Success

Validate(opt) ==
    IF opt.limit <= 0
    THEN Err("--limit must be a positive number", <<>>)
    ELSE IF opt.interactive /\ opt.continueToken # ""
    THEN Err("cannot use --interactive and --continue flags together", <<>>)
    ELSE IF opt.interactive /\ (opt.outputFormat # "" /\ opt.outputFormat # "wide")
    THEN Err("interactive mode is only supported for standard and wide table output", <<>>)
    ELSE Success

(***************************************************************************)
(* Pieces of Run.                                                          *)
(***************************************************************************)
(* Variant: the namespace of the kubeconfig is used in every case. *)
NamespaceAmbient(opt) == opt.namespace

Namespace(opt) == IF opt.allNamespaces THEN "" ELSE opt.namespace

(* Variant: the request carries no limit. *)
ListRequestUnlimited(opt, nsp, res, token) ==
    [Limit |-> 0, Continue |-> token, LabelSelector |-> opt.selector,
     Namespace |-> nsp, Resource |-> res]

(* Variant: the request carries the --continue flag, not the loop's token. *)
ListRequestFlagToken(opt, nsp, res, token) ==
    [Limit |-> opt.limit, Continue |-> opt.continueToken,
     LabelSelector |-> opt.selector, Namespace |-> nsp, Resource |-> res]

(* Variant: no request carries a token. *)
ListRequestNoToken(opt, nsp, res, token) ==
    [Limit |-> opt.limit, Continue |-> "", LabelSelector |-> opt.selector,
     Namespace |-> nsp, Resource |-> res]

(* Variant: the label selector is sent with the first page only. *)
ListRequestSelectorOnce(opt, nsp, res, token) ==
    [Limit |-> opt.limit, Continue |-> token,
     LabelSelector |-> IF token = "" THEN opt.selector ELSE "",
     Namespace |-> nsp, Resource |-> res]

ListRequest(opt, nsp, res, token) ==
    [Limit |-> opt.limit, Continue |-> token, LabelSelector |-> opt.selector,
     Namespace |-> nsp, Resource |-> res]

(* Variant: the error of the request is not looked at. *)
ListFailedIgnored(resp) == FALSE

ListFailed(resp) == resp.err # ""

NextContinue(tbl) == tbl.Continue

(* Variant: the message is kept for a first page that is also the last. *)
NoResourcesFoundAtEnd(first, tbl) ==
    first /\ Len(tbl.Rows) = 0 /\ tbl.Continue = ""

(* Variant: an empty page of any iteration gets the message. *)
NoResourcesFoundAnyPage(first, tbl) == Len(tbl.Rows) = 0

NoResourcesFound(first, tbl) == first /\ Len(tbl.Rows) = 0

(* Variant: the end of the list is noticed in non-interactive mode only. *)
EndOfListSinglePassOnly(opt, token) == token = "" /\ ~opt.interactive

EndOfList(opt, token) == token = ""

(* Variant: the marker is written in both modes. *)
EndMarkerAlways(opt) == <<OutEndOfList>>

EndMarker(opt) == IF opt.interactive THEN <<OutEndOfList>> ELSE <<>>

(* Variant: the token line shows the --continue flag, not the loop's token. *)
TokenToPrintFlag(opt, token) == opt.continueToken

TokenToPrint(opt, token) == token

(* Variant: the loop stops on 'q' only. *)
NextPageUnlessQ(char) == char # "q"

(* Variant: the comparison is inverted. *)
NextPageInverted(char) == char # "n"

(* Variant: every keystroke asks for the next page. *)
NextPageAlways(char) == TRUE

NextPage(char) == char = "n"

ReadError(chunk) == Err("read", <<"EOF">>)

AfterKey == <<OutNewline>>

(***************************************************************************)
(* The API server.  A "protocol" server pages through its collection: a    *)
(* token names the position after the last item of the page it came with.  *)
(* An "any" server answers with an empty or a one-row page and any token,  *)
(* as a server that filters behind the cursor may.  Either may fail the    *)
(* request.                                                                *)
(***************************************************************************)
Collection(srv) == [i \in 1 .. srv.size |-> i]

Position(token) ==
    IF token = "" THEN 0
    ELSE IF \E p \in 1 .. Len(TokenPool) : TokenPool[p] = token
    THEN CHOOSE p \in 1 .. Len(TokenPool) : TokenPool[p] = token
    ELSE -1

Page(rows, token) == [Rows |-> rows, Continue |-> token, err |-> ""]
Failure(cause) == [Rows |-> <<>>, Continue |-> "", err |-> cause]

ProtocolResponse(srv, req) ==
    LET start == Position(req.Continue)
        stop == IF req.Limit > 0 THEN Min(start + req.Limit, srv.size) ELSE srv.size
    IN  IF start < 0 \/ (start >= srv.size /\ req.Continue # "")
        THEN Failure("gone")
        ELSE Page(SubSeq(Collection(srv), start + 1, stop),
                  IF stop < srv.size THEN TokenPool[stop] ELSE "")

Responses(srv, req) ==
    { Failure(c) : c \in Causes } \cup
    IF srv.kind = "protocol"
    THEN { ProtocolResponse(srv, req) }
    ELSE { Page(rows, t) : rows \in {<<>>, <<1>>}, t \in {"", "t1", "t2"} }

Init ==
    /\ o = [resource |-> <<>>, limit |-> DefaultPeekLimit, continueToken |-> "",
            interactive |-> FALSE, selector |-> "", allNamespaces |-> FALSE,
            namespace |-> "", outputFormat |-> ""]
    /\ args = <<>>
    /\ pc = "Execute"
    /\ result = NoResult
    /\ gvr = NoGVR
    /\ ns = ""
    /\ continueToken = ""
    /\ isFirstRequest = FALSE
    /\ table = NoTable
    /\ lookups = <<>>
    /\ responses = <<>>
    /\ requests = <<>>
    /\ out = <<>>
    /\ reads = <<>>
    /\ server \in [kind : {"protocol"}, size : 0 .. MaxItems]
                    \cup [kind : {"any"}, size : {1}]

Return(r) ==
    /\ result' = r
    /\ pc' = "Terminated"

(* cobra parses the flags and the positional arguments (lines 123-131). *)
ParseFlags ==
    /\ pc = "Execute"
    /\ \E l \in Limits, c \in CallerTokens, i \in BOOLEAN, s \in Selectors,
          a \in BOOLEAN, f \in OutputFormats :
          o' = [o EXCEPT !.limit = l, !.continueToken = c, !.interactive = i,
                         !.selector = s, !.allNamespaces = a, !.outputFormat = f]
    /\ args' \in ArgLists
    /\ pc' = "RunE"
    /\ UNCHANGED <<result, gvr, ns, continueToken, isFirstRequest, table,
                   lookups, responses, requests, out, reads, server>>

(* RunE up to the call of Complete (lines 100-107). *)
RunE ==
    /\ pc = "RunE"
    /\ IF Len(args) = 0
       THEN /\ Return(Err("you must specify the type of resource to peek", <<>>))
            /\ o' = o
       ELSE IF Len(args) > 1
       THEN /\ Return(Err("only one resource type is allowed", <<>>))
            /\ o' = o
       ELSE /\ o' = [o EXCEPT !.resource = args[1]]
            /\ pc' = "Complete"
            /\ result' = result
    /\ UNCHANGED <<args, gvr, ns, continueToken, isFirstRequest, table,
                   lookups, responses, requests, out, reads, server>>

(* Complete (lines 137-163): the mapper, the namespace and the clients come
   from the kubeconfig; the steps before the namespace is stored may fail,
   and so may the steps after it. *)
Complete ==
    /\ pc = "Complete"
    /\ \/ /\ Return(Err("complete", <<>>))
          /\ o' = o
       \/ /\ \E n \in Namespaces : o' = [o EXCEPT !.namespace = n]
          /\ \/ Return(Err("complete", <<>>))
             \/ /\ pc' = "Validate"
                /\ result' = result
    /\ UNCHANGED <<args, gvr, ns, continueToken, isFirstRequest, table,
                   lookups, responses, requests, out, reads, server>>

(* RunE's call of Validate (lines 112-114, 166-178). *)
ValidateStep ==
    /\ pc = "Validate"
    /\ IF Validate(o) # Success
       THEN Return(Validate(o))
       ELSE /\ pc' = "Run"
            /\ result' = result
    /\ UNCHANGED <<o, args, gvr, ns, continueToken, isFirstRequest, table,
                   lookups, responses, requests, out, reads, server>>

(* Run up to the loop (lines 181-199): resolve the resource, choose the
   namespace, build the REST client, initialise the loop's locals. *)
RunBegin ==
    /\ pc = "Run"
    /\ lookups' = Append(lookups, Resolved[o.resource].asked)
    /\ LET got == Resolved[o.resource]
       IN  IF got.err # Success
           THEN /\ Return(got.err)
                /\ UNCHANGED <<gvr, ns, continueToken, isFirstRequest>>
           ELSE /\ gvr' = got.gvr
                /\ ns' = Namespace(o)
                /\ \/ /\ Return(Err("rest client", <<>>))
                      /\ UNCHANGED <<continueToken, isFirstRequest>>
                   \/ /\ continueToken' = o.continueToken
                      /\ isFirstRequest' = TRUE
                      /\ pc' = "Fetching"
                      /\ result' = result
    /\ UNCHANGED <<o, args, table, responses, requests, out, reads, server>>

(* The head of the loop (lines 202-214): build the list options and issue
   the request. *)
SendList ==
    /\ pc = "Fetching"
    /\ requests' = Append(requests, ListRequest(o, ns, gvr, continueToken))
    /\ pc' = "Awaiting"
    /\ UNCHANGED <<o, args, result, gvr, ns, continueToken, isFirstRequest,
                   table, lookups, responses, out, reads, server>>

(* The request returns (lines 209-223): an error ends the run, an empty
   first page prints the message and ends the run. *)
ListReturns ==
    /\ pc = "Awaiting"
    /\ \E resp \in Responses(server, requests[Len(requests)]) :
          /\ table' = resp
          /\ responses' = Append(responses, resp)
          /\ IF ListFailed(resp)
             THEN /\ Return(Err("list", <<resp.err>>))
                  /\ out' = out
             ELSE IF NoResourcesFound(isFirstRequest, resp)
             THEN /\ out' = Append(out, OutNoResources)
                  /\ Return(Success)
             ELSE /\ out' = out
                  /\ pc' = "Rendering"
                  /\ result' = result
    /\ UNCHANGED <<o, args, gvr, ns, continueToken, isFirstRequest, lookups,
                   requests, reads, server>>

(* Printing the page (lines 225-232, 502-512): building the printer or
   printing may fail, which ends the run; otherwise the page is written and
   the loop's locals are updated. *)
Render ==
    /\ pc = "Rendering"
    /\ \/ /\ Return(Err("print", <<>>))
          /\ UNCHANGED <<out, isFirstRequest, continueToken>>
       \/ /\ out' = Append(out, OutPage(table.Rows))
          /\ isFirstRequest' = FALSE
          /\ continueToken' = NextContinue(table)
          /\ pc' = "Deciding"
          /\ result' = result
    /\ UNCHANGED <<o, args, gvr, ns, table, lookups, responses, requests, reads, server>>

(* Variant: after the prompt the next page is fetched without waiting for
   the keystroke. *)
DecideAutoContinue ==
    /\ pc = "Deciding"
    /\ IF EndOfList(o, continueToken)
       THEN /\ out' = out \o EndMarker(o)
            /\ Return(Success)
       ELSE IF o.interactive
       THEN /\ out' = Append(out, OutPrompt)
            /\ pc' = "Fetching"
            /\ result' = result
       ELSE /\ out' = Append(out, OutTokenLine(TokenToPrint(o, continueToken)))
            /\ Return(Success)
    /\ UNCHANGED <<o, args, gvr, ns, continueToken, isFirstRequest, table,
                   lookups, responses, requests, reads, server>>

(* The end of the iteration up to the blocking read (lines 234-258). *)
Decide ==
    /\ pc = "Deciding"
    /\ IF EndOfList(o, continueToken)
       THEN /\ out' = out \o EndMarker(o)
            /\ Return(Success)
       ELSE IF o.interactive
       THEN /\ out' = Append(out, OutPrompt)
            /\ pc' = "ReadRune"
            /\ result' = result
       ELSE /\ out' = Append(out, OutTokenLine(TokenToPrint(o, continueToken)))
            /\ Return(Success)
    /\ UNCHANGED <<o, args, gvr, ns, continueToken, isFirstRequest, table,
                   lookups, responses, requests, reads, server>>

(* The keystroke (lines 245-253): a fresh bufio.Reader takes whatever one
   read of standard input delivers and ReadRune returns its first rune; the
   empty chunk is a failed read (end of input). *)
ReadRune ==
    /\ pc = "ReadRune"
    /\ \E chunk \in (IF Len(reads) < MaxReads THEN Chunks ELSE {}) \cup {<<>>} :
          /\ reads' = Append(reads, chunk)
          /\ IF chunk = <<>>
             THEN /\ Return(ReadError(chunk))
                  /\ out' = out
             ELSE /\ out' = out \o AfterKey
                  /\ IF NextPage(chunk[1])
                     THEN /\ pc' = "Fetching"
                          /\ result' = result
                     ELSE Return(Success)
    /\ UNCHANGED <<o, args, gvr, ns, continueToken, isFirstRequest, table,
                   lookups, responses, requests, server>>

Next ==
    \/ ParseFlags
    \/ RunE
    \/ Complete
    \/ ValidateStep
    \/ RunBegin
    \/ SendList
    \/ ListReturns
    \/ Render
    \/ Decide
    \/ ReadRune

Spec == Init /\ [][Next]_vars

(* The program runs until it returns, and a blocked read of standard input
   ends with a keystroke or with the end of the input. *)
FairSpec == Spec /\ WF_vars(Next)

(***************************************************************************)
(* Vocabulary of the properties.                                           *)
(***************************************************************************)
Last(s) == s[Len(s)]

Count(kind, events) == Cardinality({i \in 1 .. Len(events) : events[i].kind = kind})

Parsed == pc # "Execute"
Interactive == Parsed /\ o.interactive
SinglePass == Parsed /\ ~o.interactive
Terminated == pc = "Terminated"

\* The k-th read delivered a keystroke, and it was c / was not c.
KeyIs(k, c) == reads[k] # <<>> /\ reads[k][1] = c
KeyIsNot(k, c) == reads[k] # <<>> /\ reads[k][1] # c

FirstPageWithToken ==
    /\ Len(responses) >= 1
    /\ responses[1].err = ""
    /\ responses[1].Rows # <<>>
    /\ responses[1].Continue # ""

OnePageThenToken ==
    out = <<OutPage(responses[1].Rows), OutTokenLine(responses[1].Continue)>>

NeverPrompted == reads = <<>> /\ Count(OutPrompt.kind, out) = 0

\* C1 (as claimed): in SinglePass mode a non-empty first response with a
\* token always ends in success, with exactly the page and the token line
\* written, one list request, no prompt and no keystroke read.
C1_Original ==
    SinglePass =>
        /\ Len(requests) <= 1
        /\ NeverPrompted
        /\ (FirstPageWithToken /\ Terminated =>
                result = Success /\ OnePageThenToken /\ Len(requests) = 1)

\* C1 (amended): in SinglePass mode, a non-empty first response with a token
\* whose page the printer prints without error ends in success with exactly
\* the page and the line "Continue Token: <the server's token>" written; if
\* the printer fails the run ends with the printer's error and no token
\* line.  Either way exactly one list request is issued, no prompt is shown
\* and no keystroke is read.
C1_SinglePassOnePage ==
    SinglePass =>
        /\ Len(requests) <= 1
        /\ NeverPrompted
        /\ (FirstPageWithToken => pc \in {"Rendering", "Deciding", "Terminated"})
        /\ (FirstPageWithToken /\ Terminated =>
                /\ Len(requests) = 1
                /\ IF result.kind = "print"
                   THEN Count(OutTokenLine("").kind, out) = 0
                   ELSE result = Success /\ OnePageThenToken)

C1_Witness ==
    /\ SinglePass /\ FirstPageWithToken /\ Terminated
    /\ result = Success /\ OnePageThenToken
    /\ o.continueToken # responses[1].Continue

\* C2: in Interactive mode every list request after the first follows a
\* keystroke 'n' read at the prompt of the page just rendered and carries
\* that page's token; a keystroke other than 'n' is followed by no request,
\* and once 'n' is read the loop is back at its head with that token.
C2_NextFetchesWithToken ==
    /\ (Len(requests) >= 2 => Interactive)
    /\ \A k \in 2 .. Len(requests) :
          /\ KeyIs(k - 1, "n")
          /\ responses[k - 1].Continue # ""
          /\ requests[k].Continue = responses[k - 1].Continue
    /\ \A k \in 1 .. Len(reads) :
          IF KeyIs(k, "n")
          THEN \/ Len(requests) >= k + 1
               \/ /\ Len(requests) = k
                  /\ pc = "Fetching"
                  /\ continueToken = responses[k].Continue
          ELSE Len(requests) = k

C2_Witness ==
    /\ Interactive
    /\ Len(requests) = 3
    /\ requests[2].Continue # requests[3].Continue
    /\ requests[3].Continue = responses[2].Continue
    /\ reads = <<<<"n">>, <<"n", "x">>>>

\* C3 (as claimed): in Interactive mode, after a keystroke other than 'n' the
\* run is terminated with success and the prompt is the last thing written.
C3_Original ==
    reads # <<>> /\ KeyIsNot(Len(reads), "n") =>
        Terminated /\ result = Success /\ Last(out) = OutPrompt

\* C3 (amended): in Interactive mode, after a keystroke other than 'n' the
\* run is terminated with success, and the only thing written after the
\* prompt is the newline that follows every keystroke: no end-of-list
\* marker, no token line and no further page.
C3_QuitOnOtherKey ==
    reads # <<>> /\ KeyIsNot(Len(reads), "n") =>
        /\ Interactive
        /\ Terminated
        /\ result = Success
        /\ Len(requests) = Len(reads)
        /\ Len(out) >= 3
        /\ SubSeq(out, Len(out) - 2, Len(out)) =
               <<OutPage(Last(responses).Rows), OutPrompt, OutNewline>>
        /\ Count(OutEndOfList.kind, out) = 0
        /\ Count(OutTokenLine("").kind, out) = 0
        /\ Count(OutPage(<<>>).kind, out) = Len(reads)

C3_Witness ==
    /\ Len(reads) = 2
    /\ reads = <<<<"n">>, <<"x">>>>
    /\ Terminated /\ result = Success
    /\ Last(responses).Continue # ""

\* C4 (as claimed): a failed read of the keystroke ends the run like a
\* keystroke other than 'n': terminated, with success, and no further fetch.
C4_Original ==
    reads # <<>> /\ Last(reads) = <<>> =>
        Terminated /\ result = Success /\ Len(requests) = Len(reads)

\* The last response was printed.
RenderedLast ==
    Len(responses) >= 1 /\ Count(OutPage(<<>>).kind, out) = Len(responses)

\* C5: once a page whose response carries no token is printed, the run ends
\* with success and reads no keystroke for it; in Interactive mode the
\* end-of-list marker is the one thing written after the page, in SinglePass
\* mode nothing is; no token line is written, and no prompt for this page.
C5_EndOfCollection ==
    RenderedLast /\ Last(responses).Continue = "" =>
        /\ pc \in {"Deciding", "Terminated"}
        /\ Len(reads) = Len(responses) - 1
        /\ Count(OutPrompt.kind, out) = Len(responses) - 1
        /\ Count(OutTokenLine("").kind, out) = 0
        /\ pc = "Deciding" =>
              /\ Last(out) = OutPage(Last(responses).Rows)
              /\ Count(OutEndOfList.kind, out) = 0
        /\ Terminated =>
              /\ result = Success
              /\ IF o.interactive
                 THEN /\ Count(OutEndOfList.kind, out) = 1
                      /\ Last(out) = OutEndOfList
                      /\ out[Len(out) - 1] = OutPage(Last(responses).Rows)
                 ELSE /\ Count(OutEndOfList.kind, out) = 0
                      /\ Last(out) = OutPage(Last(responses).Rows)

C5_Witness ==
    /\ Interactive /\ Terminated
    /\ Len(responses) = 2
    /\ RenderedLast /\ Last(responses).Continue = ""
    /\ Last(out) = OutEndOfList
    /\ reads = <<<<"n">>>>

FirstPageEmpty ==
    /\ Len(responses) >= 1
    /\ responses[1].err = ""
    /\ responses[1].Rows = <<>>

\* C6: when the first response has no rows, "No resources found." is all that
\* is ever written, whether or not the response carries a token: nothing is
\* printed by the printer, no further request is issued, no keystroke is
\* read, and the run ends with success.
C6_NoResourcesFound ==
    FirstPageEmpty =>
        /\ Terminated
        /\ result = Success
        /\ out = <<OutNoResources>>
        /\ Len(requests) = 1
        /\ Len(responses) = 1
        /\ reads = <<>>

C6_Witness ==
    /\ FirstPageEmpty /\ Terminated
    /\ Interactive
    /\ responses[1].Continue # ""
    /\ out = <<OutNoResources>>

\* The number of pages of the collection at the given page size.
Pages(srv, limit) == (srv.size + limit - 1) \div limit

\* How far the invocation is from its end: the position within the
\* iteration, and the chunks standard input may still deliver.
PcRank ==
    CASE pc = "Terminated" -> 0
      [] pc = "ReadRune" -> 1
      [] pc = "Deciding" -> 2
      [] pc = "Rendering" -> 3
      [] pc = "Awaiting" -> 4
      [] pc = "Fetching" -> 5
      [] pc = "Run" -> 6
      [] pc = "Validate" -> 7
      [] pc = "Complete" -> 8
      [] pc = "RunE" -> 9
      [] pc = "Execute" -> 10

Rank == PcRank + 5 * (MaxReads + 1 - Len(reads))

\* C7: every run terminates: a run that has not returned can always take a
\* step, and every step lowers Rank, a natural number, so with an input
\* feed of finitely many chunks no run goes on forever.  Against a server
\* that pages through a finite collection the number of list requests never
\* exceeds the number of pages plus one.
C7_Terminates ==
    /\ [](Terminated \/ ENABLED Next)
    /\ [](Rank \in Nat)
    /\ [][Rank' < Rank]_vars
    /\ [](Parsed /\ o.limit > 0 /\ server.kind = "protocol" =>
              Len(requests) <= Pages(server, o.limit) + 1)

C7_Witness ==
    /\ Terminated /\ Interactive
    /\ server.kind = "protocol"
    /\ o.limit > 0
    /\ Pages(server, o.limit) = 3
    /\ Len(requests) = 3
    /\ result = Success

\* C8: the first list request carries the --continue flag as given, and
\* every later one carries the token of the response just before it.
C8_TokensPassedBack ==
    \A k \in 1 .. Len(requests) :
        requests[k].Continue =
            IF k = 1 THEN o.continueToken ELSE responses[k - 1].Continue

C8_Witness ==
    /\ Len(requests) = 3
    /\ responses[1].Continue = "t2"
    /\ responses[2].Continue = "t1"
    /\ requests[3].Continue = "t1"

\* What n completed iterations of the interactive loop have written.
RECURSIVE EarlierIterations(_)
EarlierIterations(n) ==
    IF n = 0 THEN <<>>
    ELSE EarlierIterations(n - 1) \o
         <<OutPage(responses[n].Rows), OutPrompt, OutNewline>>

\* C9: a failed list request ends the run with that error: no request
\* follows it, and the output is what the earlier iterations wrote, with
\* nothing added.
C9_ListErrorAborts ==
    Len(responses) >= 1 /\ Last(responses).err # "" =>
        /\ Terminated
        /\ result = Err("list", <<Last(responses).err>>)
        /\ Len(requests) = Len(responses)
        /\ Len(reads) = Len(responses) - 1
        /\ out = EarlierIterations(Len(responses) - 1)

C9_Witness ==
    /\ Len(responses) = 2
    /\ Last(responses).err = "forbidden"
    /\ Terminated
    /\ Len(out) = 3

\* C10: with --limit <= 0 the run never gets past Validate: no lookup and no
\* list request is made, nothing is written, and the run ends with an error.
C10_NonPositiveLimit ==
    Parsed /\ o.limit <= 0 =>
        /\ pc \in {"RunE", "Complete", "Validate", "Terminated"}
        /\ lookups = <<>>
        /\ requests = <<>>
        /\ out = <<>>
        /\ (Terminated => IsError(result))

C10_Witness ==
    /\ Terminated
    /\ o.limit = 0
    /\ result = Err("--limit must be a positive number", <<>>)


\* C11: --interactive together with a --continue token never gets past
\* Validate: no lookup, no list request and no output happen and the run
\* ends with an error; so whenever an Interactive run issues a list request,
\* the first one carries no token.
C11_InteractiveExcludesContinue ==
    /\ Parsed /\ o.interactive /\ o.continueToken # "" =>
          /\ pc \in {"RunE", "Complete", "Validate", "Terminated"}
          /\ lookups = <<>>
          /\ requests = <<>>
          /\ out = <<>>
          /\ (Terminated => IsError(result))
    /\ Interactive /\ requests # <<>> => requests[1].Continue = ""

C11_Witness ==
    /\ Terminated
    /\ o.interactive /\ o.continueToken = "t1"
    /\ result = Err("cannot use --interactive and --continue flags together", <<>>)

\* C12: --interactive with an output format other than the default and
\* "wide" never gets past Validate and ends with an error; that error is
\* returned in no other case, so the same format without --interactive, and
\* "wide" with it, are accepted.
C12_InteractiveOutputFormat ==
    /\ Parsed /\ o.interactive /\ o.outputFormat \notin {"", "wide"} =>
          /\ pc \in {"RunE", "Complete", "Validate", "Terminated"}
          /\ lookups = <<>>
          /\ requests = <<>>
          /\ out = <<>>
          /\ (Terminated => IsError(result))
    /\ result.kind = "interactive mode is only supported for standard and wide table output" =>
          o.interactive /\ o.outputFormat \notin {"", "wide"}
    /\ Parsed /\ pc \notin {"RunE", "Complete", "Validate", "Terminated"} =>
          (o.interactive => o.outputFormat \in {"", "wide"})

C12_Witness ==
    /\ Terminated
    /\ o.interactive /\ o.outputFormat = "json" /\ o.continueToken = ""
    /\ result = Err("interactive mode is only supported for standard and wide table output", <<>>)


\* The numbers of pages and of prompts written so far.
PagesPrinted == Count(OutPage(<<>>).kind, out)
Prompts == Count(OutPrompt.kind, out)

\* C13: the pages are processed one after the other.  At most one list
\* request is outstanding, and one is outstanding exactly while the
\* controller waits for it; page k is rendered after response k, the k-th
\* prompt follows page k, the k-th keystroke follows the k-th prompt, and
\* request k+1 is sent only after page k was rendered and the k-th
\* keystroke said to go on.
C13_StrictlySequential ==
    LET nreq == Len(requests)
        nresp == Len(responses)
        nreads == Len(reads)
    IN  /\ nresp <= nreq /\ nreq <= nresp + 1
        /\ (nreq = nresp + 1) <=> (pc = "Awaiting")
        /\ PagesPrinted <= nresp /\ nresp <= PagesPrinted + 1
        /\ pc = "Rendering" => nresp = PagesPrinted + 1
        /\ pc \in {"Fetching", "Deciding", "ReadRune"} => PagesPrinted = nreq
        /\ Prompts <= PagesPrinted
        /\ nreads <= Prompts /\ Prompts <= nreads + 1
        /\ pc = "ReadRune" => Prompts = nreq /\ nreads = nreq - 1
        /\ nreq <= PagesPrinted + 1
        /\ nreq <= nreads + 1
        /\ \A k \in 1 .. nreq - 1 : KeyIs(k, "n")

C13_Witness ==
    /\ pc = "Awaiting"
    /\ Len(requests) = 3 /\ Len(responses) = 2
    /\ PagesPrinted = 2 /\ Prompts = 2 /\ Len(reads) = 2


\* The text s occurs in the text msg, character for character.
Contains(msg, s) ==
    \E i \in 0 .. Len(msg) - Len(s) : SubSeq(msg, i + 1, i + Len(s)) = s

\* A character that %q does not write as it is.
NeedsEscape(s) == \E i \in 1 .. Len(s) : s[i] \in {"\"", "\\"}

UnknownResource == "the server doesn't have a resource type"

\* C14 as stated: the message of the unknown-resource error contains the
\* user's argument verbatim, and no list request was issued.
C14_Original ==
    result.kind = UnknownResource =>
        /\ Contains(result.arg, o.resource)
        /\ requests = <<>>

\* C14: when the mapper has no match for the query, the run ends before
\* any list request with the unknown-resource error, whose message holds
\* the user's argument as %q writes it: between double quotes, neither
\* lower-cased nor split, and verbatim unless the argument has a double
\* quote or a backslash, which %q escapes.
C14_UnknownResourceNamesArgument ==
    /\ lookups # <<>> /\ Matches(Last(lookups)) = {} =>
          /\ Terminated
          /\ result.kind = UnknownResource
    /\ result.kind = UnknownResource =>
          /\ result.arg = Quote(o.resource)
          /\ (~NeedsEscape(o.resource) => Contains(result.arg, o.resource))
          /\ (ToLower(o.resource) # o.resource =>
                 ~Contains(result.arg, ToLower(o.resource)))
          /\ requests = <<>>
          /\ out = <<>>

C14_Witness ==
    /\ Terminated
    /\ o.resource = PodsBatchCap
    /\ result = Err(UnknownResource, Quote(PodsBatchCap))
    /\ requests = <<>>


\* The positions of the dots of a text, and its upper-case letters.
Dots(s) == {i \in 1 .. Len(s) : s[i] = "."}
HasUpper(s) == \E i \in 1 .. Len(s) : s[i] \in {"P", "J", "B", "W"}

\* C15: the mapper is asked once, with a query that has no upper-case
\* letter and no version.  For an argument with exactly one dot the resource
\* is the text left of the dot and the group the text right of it; for any
\* other argument the resource is the whole lower-cased argument, dots
\* included, and the group is unspecified.
C15_QueryOfResolver ==
    lookups # <<>> =>
        LET q == Last(lookups)
            n == Len(o.resource)
            dots == Dots(o.resource)
        IN  /\ Len(lookups) = 1
            /\ q.Version = ""
            /\ ~HasUpper(q.Resource) /\ ~HasUpper(q.Group)
            /\ IF Cardinality(dots) = 1
               THEN LET d == CHOOSE i \in dots : TRUE
                    IN  /\ Len(q.Resource) = d - 1
                        /\ Len(q.Group) = n - d
                        /\ \A i \in 1 .. d - 1 :
                              q.Resource[i] = LowerChar(o.resource[i])
                        /\ \A i \in 1 .. n - d :
                              q.Group[i] = LowerChar(o.resource[d + i])
               ELSE /\ q.Group = <<>>
                    /\ Len(q.Resource) = n
                    /\ \A i \in 1 .. n : q.Resource[i] = LowerChar(o.resource[i])

C15_Witness ==
    /\ o.resource = WidgetsExampleCom
    /\ lookups = <<[Group |-> <<>>, Version |-> "", Resource |-> WidgetsExampleCom]>>
    /\ Terminated /\ result.kind = UnknownResource


\* C16: with --all-namespaces every list request of the run has the empty
\* namespace, whatever namespace Complete took from the kubeconfig; without
\* it every list request has exactly that namespace.
C16_NamespaceScope ==
    \A k \in 1 .. Len(requests) :
        /\ o.allNamespaces => requests[k].Namespace = ""
        /\ ~o.allNamespaces => requests[k].Namespace = o.namespace

C16_Witness ==
    /\ o.allNamespaces /\ o.namespace = "dev"
    /\ Len(requests) = 2
    /\ requests[2].Namespace = ""

\* C17: every list request carries the limit of the command line, which is
\* positive; a server that honours the limit therefore returns no page with
\* more items than the limit, and no such page is printed.
C17_LimitOfEveryRequest ==
    /\ \A k \in 1 .. Len(requests) :
          requests[k].Limit = o.limit /\ o.limit > 0
    /\ server.kind = "protocol" =>
          /\ \A k \in 1 .. Len(responses) : Len(responses[k].Rows) <= o.limit
          /\ \A i \in 1 .. Len(out) :
                out[i].kind = OutPage(<<>>).kind => Len(out[i].items) <= o.limit

C17_Witness ==
    /\ server.kind = "protocol" /\ server.size = 3
    /\ o.limit = 2
    /\ Len(requests) = 2 /\ Len(responses) = 2
    /\ Len(responses[1].Rows) = 2
    /\ PagesPrinted = 2


\* Everything standard input delivered, in order.
RECURSIVE Concat(_)
Concat(chunks) ==
    IF chunks = <<>> THEN <<>> ELSE Head(chunks) \o Concat(Tail(chunks))

Input == Concat(reads)

\* C19 as stated: the k-th prompt sees the k-th keystroke of the input;
\* no keystroke that standard input delivered is skipped.
C19_Original ==
    \A k \in 1 .. Len(reads) :
        k <= Len(Input) => reads[k] # <<>> /\ reads[k][1] = Input[k]

\* The positions of the invocation inside the pagination loop.
InLoop == {"Fetching", "Awaiting", "Rendering", "Deciding", "ReadRune"}

\* C20: every list request of a run has the limit and the label selector
\* of the command line and the namespace and the resource of the first
\* request; from the head of an iteration to the printing of its page the
\* first-page flag is true in the first iteration and false in every later
\* one; and no step of the loop changes the options (the mode among them),
\* the resolved resource or the namespace.
C20_OnlyTokenAndFlagChange ==
    /\ [](\A k \in 1 .. Len(requests) :
             /\ requests[k].Limit = o.limit
             /\ requests[k].LabelSelector = o.selector
             /\ requests[k].Namespace = requests[1].Namespace
             /\ requests[k].Resource = requests[1].Resource)
    /\ [](pc = "Fetching" => (isFirstRequest <=> requests = <<>>))
    /\ [](pc \in {"Awaiting", "Rendering"} => (isFirstRequest <=> Len(requests) = 1))
    /\ [][(pc \in InLoop) => (o' = o /\ gvr' = gvr /\ ns' = ns)]_vars

C20_Witness ==
    /\ Len(requests) = 3
    /\ o.interactive /\ o.selector = "app=web"
    /\ requests[3].LabelSelector = "app=web"
    /\ requests[3].Continue # requests[2].Continue
    /\ ~isFirstRequest


\* The pages written so far, in the order of writing.
IsPage(e) == e.kind = OutPage(<<>>).kind
PagesOf(events) == SelectSeq(events, IsPage)

\* C21: the "No resources found." message is written for the first
\* response only, and then it is all the run writes.  A later response
\* without rows is printed as a page like any other, and what follows that
\* page depends on its token alone: with a token the Interactive run
\* prompts, and the run fetches again only after responses with a token;
\* without a token the run ends with success.
C21_NoResourcesFirstIterationOnly ==
    /\ Count(OutNoResources.kind, out) >= 1 =>
          /\ out = <<OutNoResources>>
          /\ Len(requests) = 1 /\ Len(responses) = 1
          /\ responses[1].Rows = <<>>
          /\ Terminated /\ result = Success
    /\ \A k \in 2 .. PagesPrinted : PagesOf(out)[k].items = responses[k].Rows
    /\ pc \notin {"Awaiting", "Rendering"} /\ Len(responses) >= 2
       /\ ~ListFailed(Last(responses)) /\ result.kind # "print" =>
          PagesPrinted = Len(responses)
    /\ \A k \in 1 .. Len(requests) - 1 : responses[k].Continue # ""
    /\ RenderedLast /\ Len(responses) >= 2 /\ pc # "Deciding" =>
          IF Last(responses).Continue = ""
          THEN /\ Terminated /\ result = Success
               /\ Len(reads) = Len(responses) - 1
          ELSE Interactive => Prompts = PagesPrinted

C21_Witness ==
    /\ pc = "ReadRune"
    /\ Len(responses) = 2
    /\ responses[2].Rows = <<>> /\ responses[2].Continue # ""
    /\ PagesPrinted = 2 /\ PagesOf(out)[2].items = <<>>
    /\ Prompts = 2
    /\ Count(OutNoResources.kind, out) = 0


\* The number of reads that returned the keystroke n.
NextKeys == Cardinality({k \in 1 .. Len(reads) : KeyIs(k, "n")})

Rendered == Concat([k \in 1 .. PagesPrinted |-> PagesOf(out)[k].items])

\* The position in the collection at which the run starts to list.
ResumePoint == Position(o.continueToken)

\* C23: against a server that pages by the continuation protocol, the
\* items of the pages written by a run, taken in the order of writing, are
\* the items of the collection from the resume point on, one after the
\* other: none twice, none left out, none out of order.
C23_RenderedIsContiguous ==
    server.kind = "protocol" /\ PagesPrinted >= 1 =>
        /\ ResumePoint >= 0
        /\ ResumePoint + Len(Rendered) <= server.size
        /\ \A i \in 1 .. Len(Rendered) :
              Rendered[i] = Collection(server)[ResumePoint + i]
        /\ \A i, j \in 1 .. Len(Rendered) : i # j => Rendered[i] # Rendered[j]

C23_Witness ==
    /\ server.kind = "protocol" /\ server.size = 3
    /\ o.limit = 1 /\ o.continueToken = ""
    /\ PagesPrinted = 3
    /\ Rendered = <<1, 2, 3>>

====
